---- MODULE Spec2Model ----
(***************************************************************************)
(* The Patient Input page of the VERO risk calculator                      *)
(* (app/pages/1_Patient_Input.py) as a state machine.  The page is a       *)
(* script that runs top to bottom on every user interaction; what survives *)
(* from one run to the next is st.session_state.  A state of the model is  *)
(* the session state together with what the last run showed.               *)
(*                                                                         *)
(* Text is a sequence of one-character strings, so that strip(), the "."   *)
(* test, int() and float() are computed on the characters.  A Python value *)
(* is a record [t, n, d, s]: t is its type, (n, d) the number n / 10^d,    *)
(* s the text of a str.                                                    *)
(***************************************************************************)
EXTENDS Integers, Sequences, FiniteSets, TLC

\* Longest text typed into the numeric field, and longest column handed to
\* clean_levels, that the model enumerates.
MaxLen == 3

\* How many form fields the user edits in one session.
MaxEdits == 1

(***************************************************************************)
(* Python values                                                           *)
(***************************************************************************)
PyNone == [t |-> "none", n |-> 0, d |-> 0, s |-> <<>>]

\* float("nan"): what pandas holds for an empty cell
PyNaN == [t |-> "nan", n |-> 0, d |-> 0, s |-> <<>>]

PyInt(n) == [t |-> "int", n |-> n, d |-> 0, s |-> <<>>]

PyStr(s) == [t |-> "str", n |-> 0, d |-> 0, s |-> s]

\* The float n / 10^d; equal floats get equal records (4.20 is 4.2).
RECURSIVE PyFloat(_, _)
PyFloat(n, d) ==
    IF d > 0 /\ n % 10 = 0 THEN PyFloat(n \div 10, d - 1)
    ELSE [t |-> "float", n |-> n, d |-> d, s |-> <<>>]

RECURSIVE Pow10(_)
Pow10(d) == IF d = 0 THEN 1 ELSE 10 * Pow10(d - 1)

Digits == <<"0", "1", "2", "3", "4", "5", "6", "7", "8", "9">>

IsDigit(c) == \E i \in 1..10 : Digits[i] = c

DigitVal(c) == (CHOOSE i \in 1..10 : Digits[i] = c) - 1

IsSpace(c) == c = " "

\* str.strip(): whitespace off both ends
RECURSIVE LStrip(_)
LStrip(s) == IF s # <<>> /\ IsSpace(Head(s)) THEN LStrip(Tail(s)) ELSE s

RECURSIVE RStrip(_)
RStrip(s) ==
    IF s # <<>> /\ IsSpace(s[Len(s)]) THEN RStrip(SubSeq(s, 1, Len(s) - 1)) ELSE s

Strip(s) == RStrip(LStrip(s))

HasDot(s) == \E i \in 1..Len(s) : s[i] = "."

AllDigits(s) == s # <<>> /\ \A i \in 1..Len(s) : IsDigit(s[i])

RECURSIVE DigitsVal(_)
DigitsVal(s) ==
    IF s = <<>> THEN 0
    ELSE 10 * DigitsVal(SubSeq(s, 1, Len(s) - 1)) + DigitVal(s[Len(s)])

RECURSIVE NatText(_)
NatText(n) == IF n < 10 THEN <<Digits[n + 1]>> ELSE NatText(n \div 10) \o <<Digits[(n % 10) + 1]>>

RECURSIVE PadFrac(_, _)
PadFrac(s, d) == IF Len(s) < d THEN PadFrac(<<"0">> \o s, d) ELSE s

\* int(text): surrounding whitespace allowed, then decimal digits only.
\* ok is FALSE where Python raises ValueError.
IntOfText(s) ==
    LET b == Strip(s) IN
    IF AllDigits(b) THEN [ok |-> TRUE, v |-> PyInt(DigitsVal(b))]
    ELSE [ok |-> FALSE, v |-> PyNone]

\* float(text): surrounding whitespace allowed, then digits with at most one
\* "." and at least one digit ("4", "4.", ".5", "4.5").
FloatOfText(s) ==
    LET b == Strip(s)
        dots == {i \in 1..Len(b) : b[i] = "."}
    IN  IF dots = {} THEN
            IF AllDigits(b) THEN [ok |-> TRUE, v |-> PyFloat(DigitsVal(b), 0)]
            ELSE [ok |-> FALSE, v |-> PyNone]
        ELSE
            LET i == CHOOSE j \in dots : TRUE
                whole == SubSeq(b, 1, i - 1)
                frac == SubSeq(b, i + 1, Len(b))
            IN  IF /\ Cardinality(dots) = 1
                   /\ Len(whole) + Len(frac) > 0
                   /\ \A k \in 1..Len(whole) : IsDigit(whole[k])
                   /\ \A k \in 1..Len(frac) : IsDigit(frac[k])
                THEN [ok |-> TRUE,
                      v |-> PyFloat(DigitsVal(whole \o frac), Len(frac))]
                ELSE [ok |-> FALSE, v |-> PyNone]

\* float(v) of any value: numbers convert, text is parsed, the rest raises.
FloatOf(v) ==
    CASE v.t = "int" -> [ok |-> TRUE, v |-> PyFloat(v.n, 0)]
      [] v.t = "float" -> [ok |-> TRUE, v |-> v]
      [] v.t = "str" -> FloatOfText(v.s)
      [] OTHER -> [ok |-> FALSE, v |-> PyNone]

\* str(v)
StrOf(v) ==
    CASE v.t = "str" -> v.s
      [] v.t = "int" -> NatText(v.n)
      [] v.t = "float" ->
            IF v.d = 0 THEN NatText(v.n) \o <<".", "0">>
            ELSE NatText(v.n \div Pow10(v.d)) \o <<".">>
                 \o PadFrac(NatText(v.n % Pow10(v.d)), v.d)
      [] v.t = "nan" -> <<"n", "a", "n">>
      [] OTHER -> <<"N", "o", "n", "e">>

\* a <= b for floats
FloatLeq(a, b) == a.n * Pow10(b.d) <= b.n * Pow10(a.d)

(***************************************************************************)
(* Basic helpers (lines 18-90)                                             *)
(***************************************************************************)
LEAVE_BLANK_LABEL == <<"(", "l", "e", "a", "v", "e", " ", "b", "l", "a", "n", "k", ")">>

NotKnownMissing == <<"N", "o", "t", " ", "K", "n", "o", "w", "n", " ", "/", " ", "M", "i", "s", "s", "i", "n", "g">>

MissingNotNoted == <<"M", "i", "s", "s", "i", "n", "g", " ", "/", " ", "N", "o", "t", " ", "N", "o", "t", "e", "d">>

MISSING_LABELS == {NotKnownMissing, MissingNotNoted}

LE65 == <<"<", "=", " ", "6", "5", " ", "y", "e", "a", "r", "s">>

GT65 == <<">", " ", "6", "5", " ", "y", "e", "a", "r", "s">>

NONE_LABEL == <<"(", "n", "o", "n", "e", ")">>

AgeCut == 65

\* _is_missing: None, or pd.isna(v)
is_missing(v) == v.t \in {"none", "nan"}

\* _clean_scalar: a numpy scalar becomes the Python scalar of the same value
clean_scalar(v) == v

\* _as_text
as_text(v) == IF is_missing(v) THEN <<>> ELSE StrOf(clean_scalar(v))

\* clean_levels: the loop of lines 49-57 from position i on, with the list
\* built so far (seen holds exactly the members of out)
RECURSIVE clean_levels_loop(_, _)
clean_levels_loop(values, out) ==
    IF values = <<>> THEN out
    ELSE
        LET v == Head(values)
            s == Strip(StrOf(v))
            seen == {out[i] : i \in 1..Len(out)}
        IN  IF is_missing(v) THEN clean_levels_loop(Tail(values), out)
            ELSE IF s = <<>> \/ s \in MISSING_LABELS
                 THEN clean_levels_loop(Tail(values), out)
            ELSE IF s \notin seen
                 THEN clean_levels_loop(Tail(values), Append(out, s))
            ELSE clean_levels_loop(Tail(values), out)

\* clean_levels with the seen test of line 55 lost: repeats are kept
clean_levels_repeats(values) ==
    LET kept == SelectSeq(values, LAMBDA v :
                    /\ ~is_missing(v)
                    /\ Strip(StrOf(v)) # <<>>
                    /\ Strip(StrOf(v)) \notin MISSING_LABELS)
    IN  [i \in 1..Len(kept) |-> Strip(StrOf(kept[i]))]

clean_levels(values) == clean_levels_loop(values, <<>>)

\* derive_age_group with a < 65 for a <= 65
derive_age_group_strict(age_value) ==
    IF is_missing(age_value) THEN PyNone
    ELSE
        LET a == FloatOf(age_value)
        IN  IF ~a.ok THEN PyNone
            ELSE IF ~FloatLeq(PyFloat(AgeCut, 0), a.v) THEN PyStr(LE65)
            ELSE PyStr(GT65)

derive_age_group(age_value) ==
    IF is_missing(age_value) THEN PyNone
    ELSE
        LET a == FloatOf(age_value)
        IN  IF ~a.ok THEN PyNone
            ELSE IF FloatLeq(a.v, PyFloat(AgeCut, 0)) THEN PyStr(LE65)
            ELSE PyStr(GT65)

\* parse_numeric with float() for every text
parse_numeric_float(raw0) ==
    LET raw == Strip(raw0)
    IN  IF raw = <<>> THEN PyNone
        ELSE
            LET p == FloatOfText(raw)
            IN  IF p.ok THEN p.v ELSE PyNone

parse_numeric(raw0) ==
    LET raw == Strip(raw0)
    IN  IF raw = <<>> THEN PyNone
        ELSE
            LET p == IF HasDot(raw) THEN FloatOfText(raw) ELSE IntOfText(raw)
            IN  IF p.ok THEN p.v ELSE PyNone

(***************************************************************************)
(* Python dicts: functions whose domain is the set of keys                 *)
(***************************************************************************)
EmptyDict == [k \in {} |-> PyNone]

DictPut(dict, key, val) ==
    [k \in DOMAIN dict \cup {key} |-> IF k = key THEN val ELSE dict[k]]

\* dict.get(key, default)
DictGet(dict, key, default) == IF key \in DOMAIN dict THEN dict[key] ELSE default

\* dict.setdefault(key, default)
DictSetDefault(dict, key, default) ==
    IF key \in DOMAIN dict THEN dict ELSE DictPut(dict, key, default)

SeqToSet(q) == {q[i] : i \in 1..Len(q)}

(***************************************************************************)
(* The engine's schema (lines 261-264).  The engine is not part of the     *)
(* page: the schema is an input, fixed for the process.  It has a numeric  *)
(* feature, a categorical one, one in neither list (free text), the        *)
(* derived age_group, and one feature ("bmi") that no layout group lists   *)
(* and the dataset does not hold.                                          *)
(***************************************************************************)
FEATURE_COLS == <<"age", "age_group", "gender", "tumor_type", "bmi">>

NUM_COLS == {"age"}

CAT_COLS == <<"gender", "age_group">>

\* Layout groups (lines 128-159), in order
CATEGORIES ==
    << <<"age", "gender", "ethnicity", "education_level",
         "employment_status", "alcohol_consumption", "smoking_status_detail">>,
       <<"tumor_type", "molecular_alterations", "mutations_present",
         "genotipo_DPYD_type">>,
       <<"surgical_intervention", "radiotherapy_status", "received_chemo",
         "received_targeted_therapy", "oncology_treatment_lines_n",
         "n_treatment_lines", "max_combo_regimen_size", "total_chemo_cycles",
         "treatment_duration_days">>,
       <<"hypertension", "dyslipidemia", "ischemic_heart_disease",
         "atrial_fibrillation", "hypertensive_heart_disease", "diabete_tipo_II",
         "obesity_comorbidity", "copd", "asthma", "renal_insufficiency",
         "anemia_comorbidity", "depressive_syndrome", "psychiatric_disorders",
         "cerebrovascular_disorders", "gastroesophageal_reflux_full",
         "gastrointestinal_disorders", "cardiovascular_disorders">>,
       <<"cci_score", "IPB", "farmaci_cat_n", "total_unique_active_drugs">>,
       <<"white_blood_cells_range", "red_blood_cells_range", "hemoglobin_range",
         "neutrophils_percent_range", "platelet_count_range", "creatinine_range",
         "ast_got_range", "alt_gpt_range", "total_bilirubin_range",
         "direct_bilirubin_range">>,
       <<"adr_n_tot">> >>

\* Texts of the dataset and of the user's entries
P1 == <<"P", "1">>

P2 == <<"P", "2">>

P3 == <<"P", "3">>

ABC == <<"a", "b", "c">>

P2PAD == <<" ", "P", "2", " ">>

MALE == <<"M", "a", "l", "e">>

FEMALE == <<"F", "e", "m", "a", "l", "e">>

FEMALEPAD == <<" ", "F", "e", "m", "a", "l", "e", " ">>

NSCLC == <<"N", "S", "C", "L", "C">>

SCLCPAD == <<" ", "S", "C", "L", "C", " ">>

D1 == <<"2", "0", "2", "0", "-", "0", "1", "-", "0", "5">>

D2 == <<"2", "0", "2", "0", "-", "0", "2", "-", "0", "1">>

D3 == <<"2", "0", "2", "1", "-", "0", "3", "-", "0", "9">>

(***************************************************************************)
(* The master dataset, as pandas holds it after read_excel: a set of       *)
(* column names and the rows in file order.  An empty cell is NaN.  The    *)
(* rows carry what a registry file carries: a number column with an int,   *)
(* a float and a text, the two placeholder labels, padded text, a padded   *)
(* id, a second row for an id, and a stale raw age_group.                  *)
(***************************************************************************)
MasterCols ==
    {"patient_id", "age", "age_group", "gender", "tumor_type",
     "tumor_diagnosis_date", "observation_start_date", "observation_end_date"}

MasterRows ==
    << [patient_id |-> PyStr(P1), age |-> PyInt(70), age_group |-> PyStr(LE65),
        gender |-> PyStr(MALE), tumor_type |-> PyStr(NSCLC),
        tumor_diagnosis_date |-> PyStr(D1), observation_start_date |-> PyStr(D2),
        observation_end_date |-> PyNaN],
       [patient_id |-> PyStr(P2PAD), age |-> PyFloat(651, 1), age_group |-> PyNaN,
        gender |-> PyStr(NotKnownMissing), tumor_type |-> PyStr(SCLCPAD),
        tumor_diagnosis_date |-> PyNaN, observation_start_date |-> PyNaN,
        observation_end_date |-> PyStr(D3)],
       [patient_id |-> PyStr(P1), age |-> PyInt(40), age_group |-> PyStr(LE65),
        gender |-> PyStr(FEMALEPAD), tumor_type |-> PyStr(MissingNotNoted),
        tumor_diagnosis_date |-> PyNaN, observation_start_date |-> PyNaN,
        observation_end_date |-> PyNaN],
       [patient_id |-> PyStr(P3), age |-> PyStr(ABC), age_group |-> PyStr(GT65),
        gender |-> PyNaN, tumor_type |-> PyNaN,
        tumor_diagnosis_date |-> PyNaN, observation_start_date |-> PyNaN,
        observation_end_date |-> PyNaN] >>

MasterDf == [loaded |-> TRUE, cols |-> MasterCols, rows |-> MasterRows]

\* An uploaded workbook whose key column has another name
NoPidDf ==
    [loaded |-> TRUE, cols |-> {"id", "age"},
     rows |-> << [id |-> PyStr(P1), age |-> PyInt(70)] >>]

\* df_master = None
NoDf == [loaded |-> FALSE, cols |-> {}, rows |-> <<>>]

\* pd.read_excel of the uploaded bytes (line 283)
ReadExcel(bytes) == IF bytes = "master" THEN MasterDf ELSE NoPidDf

\* df[c].tolist()
Column(df, c) == [i \in 1..Len(df.rows) |-> df.rows[i][c]]

\* Series.dropna().tolist()
DropNa(values) == SelectSeq(values, LAMBDA v : ~is_missing(v))

\* build_levels_from_df: a dict from each categorical column the frame has
\* to its levels
RECURSIVE build_levels_loop(_, _, _)
build_levels_loop(df, cat_cols, levels) ==
    IF cat_cols = <<>> THEN levels
    ELSE
        LET c == Head(cat_cols)
        IN  build_levels_loop(df, Tail(cat_cols),
                IF c \in df.cols
                THEN DictPut(levels, c, clean_levels(DropNa(Column(df, c))))
                ELSE levels)

build_levels_from_df(df, cat_cols) == build_levels_loop(df, cat_cols, EmptyDict)

\* The levels of the master dataset
MasterLevels == build_levels_from_df(MasterDf, CAT_COLS)

\* levels = build_levels_from_df(df_master, CAT_COLS) (line 298); those of the
\* master dataset are computed once
levels_of(df) ==
    IF df = MasterDf THEN MasterLevels ELSE build_levels_from_df(df, CAT_COLS)

\* The picker's ids (lines 307-314): str, strip, unique.  sorted() orders the
\* options on screen and nothing else; the ids are kept as a set.
PatientIds(df) == {Strip(StrOf(df.rows[i]["patient_id"])) : i \in 1..Len(df.rows)}

\* df.loc[df["patient_id"].astype(str).str.strip() == sel].iloc[0] (line 322)
RowOf(df, sel) ==
    LET hits == {i \in 1..Len(df.rows) :
                    Strip(StrOf(df.rows[i]["patient_id"])) = sel}
        first == CHOOSE i \in hits : \A j \in hits : i <= j
    IN  df.rows[first]

\* row.get(key, default): the cell as it is, NaN included
RowGet(df, row, key, default) == IF key \in df.cols THEN row[key] ELSE default

(***************************************************************************)
(* State                                                                   *)
(***************************************************************************)
VARIABLES
    session,         \* st.session_state: a dict from key to value
    picker,          \* the value of the patient_id selectbox (line 316)
    up,              \* the file in the uploader: "none", "master" or "nopid"
    default_exists,  \* DEFAULT_DATA_PATH.exists()
    view,            \* what the last run of the script rendered
    edits,           \* how many form fields the user has edited so far
    saved,           \* the merged record of the last submission, while the
                     \* selection it was saved under is kept
    arg,             \* the column handed to a call of the level-set functions
    result           \* what that call returned

vars == <<session, picker, up, default_exists, view, edits, saved, arg, result>>

FeatureSet == SeqToSet(FEATURE_COLS)

\* wkey
wkey(col) == "w__" \o col

\* patient_changed with the test lost: every run seeds
patient_changed_always(ss, sel) == TRUE

\* The seed-on-change test of lines 340-341: prev != sel, prev being None
\* when no patient was active yet
patient_changed(ss, sel) ==
    "_active_patient_id" \notin DOMAIN ss \/ ss["_active_patient_id"] # sel

\* seed_widgets_from_patient, on the session state ss
RECURSIVE seed_widgets_from_patient(_, _, _, _, _)
seed_widgets_from_patient(ss, base_patient, feature_cols, numeric_cols, levels) ==
    IF feature_cols = <<>> THEN ss
    ELSE
        LET col == Head(feature_cols)
            wk == wkey(col)
            v == DictGet(base_patient, col, PyNone)
            seeded ==
                IF col = "age_group" THEN ss
                ELSE IF col \in numeric_cols THEN DictPut(ss, wk, as_text(v))
                ELSE IF col \in DOMAIN levels /\ Len(levels[col]) > 0 THEN
                    LET opts == <<LEAVE_BLANK_LABEL>> \o levels[col]
                        s == Strip(StrOf(v))
                    IN  IF is_missing(v) THEN DictPut(ss, wk, LEAVE_BLANK_LABEL)
                        ELSE DictPut(ss, wk,
                                IF s \in SeqToSet(opts) THEN s ELSE LEAVE_BLANK_LABEL)
                ELSE DictPut(ss, wk, as_text(v))
        IN  seed_widgets_from_patient(seeded, base_patient, Tail(feature_cols),
                                      numeric_cols, levels)

\* A widget bound to a session key (key=wk, no value= or index=): it shows the
\* key's entry, and where the key has none it registers its default there.
WidgetValue(ss, wk, default) == IF wk \in DOMAIN ss THEN ss[wk] ELSE default

\* input_widget: the session state with the widget registered, the value
\* returned, and whether st.warning was called
input_widget(ss, col, numeric_cols, levels) ==
    LET wk == wkey(col)
    IN  IF col \in numeric_cols THEN
            LET raw == WidgetValue(ss, wk, <<>>)
                v == parse_numeric(raw)
            IN  [session |-> DictPut(ss, wk, raw), value |-> v,
                 warning |-> (Strip(raw) # <<>> /\ v = PyNone)]
        ELSE IF col \in DOMAIN levels /\ Len(levels[col]) > 0 THEN
            LET pick == WidgetValue(ss, wk, LEAVE_BLANK_LABEL)
            IN  [session |-> DictPut(ss, wk, pick),
                 value |-> IF pick = LEAVE_BLANK_LABEL THEN PyNone ELSE PyStr(pick),
                 warning |-> FALSE]
        ELSE
            LET raw == WidgetValue(ss, wk, <<>>)
            IN  [session |-> DictPut(ss, wk, raw),
                 value |-> IF Strip(raw) = <<>> THEN PyNone ELSE PyStr(Strip(raw)),
                 warning |-> FALSE]

\* build_patient_record_from_row
RECURSIVE build_patient_record_loop(_, _, _, _)
build_patient_record_loop(df, row, feature_cols, rec) ==
    IF feature_cols = <<>> THEN rec
    ELSE
        LET c == Head(feature_cols)
            val == row[c]
        IN  build_patient_record_loop(df, row, Tail(feature_cols),
                IF c \in df.cols
                THEN DictPut(rec, c, IF is_missing(val) THEN PyNone
                                     ELSE clean_scalar(val))
                ELSE DictPut(rec, c, PyNone))

\* build_patient_record_from_row with the else branch of line 235 lost: a
\* feature the dataset has no column for gets no key
build_patient_record_no_else(df, row, feature_cols) ==
    LET present == SelectSeq(feature_cols, LAMBDA c : c \in df.cols)
    IN  build_patient_record_loop(df, row, present, EmptyDict)

build_patient_record_from_row(df, row, feature_cols) ==
    build_patient_record_loop(df, row, feature_cols, EmptyDict)

\* The base record of a selected patient (lines 322-326): the record of the
\* row, age_group overwritten with the derived one
base_record(df, sel) ==
    LET rec == build_patient_record_from_row(df, RowOf(df, sel), FEATURE_COLS)
    IN  IF "age_group" \in FeatureSet
        THEN DictPut(rec, "age_group", derive_age_group(DictGet(rec, "age", PyNone)))
        ELSE rec

\* timeline_record (lines 329-337)
timeline_of(df, row) ==
    [k \in {"Diagnosis date", "Treatment start date", "Radiotherapy start date",
            "Chemo start date", "Targeted therapy start date",
            "Progression date", "Last follow-up date"} |->
        CASE k = "Diagnosis date" -> RowGet(df, row, "tumor_diagnosis_date", PyNone)
          [] k = "Treatment start date" ->
                RowGet(df, row, "Oncology Unit Intake Date",
                       RowGet(df, row, "observation_start_date", PyNone))
          [] k = "Radiotherapy start date" ->
                RowGet(df, row, "radiotherapy_start_date", PyNone)
          [] k = "Last follow-up date" ->
                RowGet(df, row, "observation_end_date", PyNone)
          [] OTHER -> PyNone]

\* The fields the form renders, in order (lines 369-384): each group's
\* columns that are declared features, never age_group
RECURSIVE Flatten(_)
Flatten(groups) == IF groups = <<>> THEN <<>> ELSE Head(groups) \o Flatten(Tail(groups))

FormCols ==
    SelectSeq(Flatten(CATEGORIES), LAMBDA col : col \in FeatureSet /\ col # "age_group")

\* updated[col] = input_widget(...) (line 383), with the session state and
\* the warnings carried along
collect(acc, col, w) ==
    [session |-> w.session,
     updated |-> DictPut(acc.updated, col, w.value),
     warned |-> IF w.warning THEN acc.warned \cup {col} ELSE acc.warned]

\* The form's loop: every field rendered, its value collected into updated
RECURSIVE render_form(_, _, _)
render_form(acc, cols, levels) ==
    IF cols = <<>> THEN acc
    ELSE render_form(
            collect(acc, Head(cols),
                    input_widget(acc.session, Head(cols), NUM_COLS, levels)),
            Tail(cols), levels)

\* The merge of lines 393-397
RECURSIVE merge_updated(_, _, _)
merge_updated(merged, feature_cols, updated) ==
    IF feature_cols = <<>> THEN merged
    ELSE
        LET col == Head(feature_cols)
        IN  merge_updated(
                IF col # "age_group" /\ col \in DOMAIN updated
                THEN DictPut(merged, col, updated[col]) ELSE merged,
                Tail(feature_cols), updated)

\* Lines 402-403
RECURSIVE set_defaults(_, _)
set_defaults(merged, feature_cols) ==
    IF feature_cols = <<>> THEN merged
    ELSE set_defaults(DictSetDefault(merged, Head(feature_cols), PyNone),
                      Tail(feature_cols))

\* The merged record of a submission (lines 391-403)
merge_record(base_patient, updated) ==
    LET m1 == merge_updated(base_patient, FEATURE_COLS, updated)
        m2 == IF "age_group" \in FeatureSet
              THEN DictPut(m1, "age_group", derive_age_group(DictGet(m1, "age", PyNone)))
              ELSE m1
    IN  set_defaults(m2, FEATURE_COLS)

\* display_demographics (lines 407-415)
demographics_of(ss, merged) ==
    [k \in {"patient_id", "age", "age_group", "gender", "ethnicity",
            "education_level", "employment_status"} |->
        CASE k = "patient_id" -> DictGet(ss, "selected_patient_id", PyNone)
          [] k = "age_group" -> derive_age_group(DictGet(merged, "age", PyNone))
          [] OTHER -> DictGet(merged, k, PyNone)]

\* halted_session with the persist block of lines 348-350 run before the
\* stop: the record is reset
halted_session_reset(ss) ==
    DictPut(ss, "patient_record", [c \in FeatureSet |-> PyNone])

\* What a run that st.stop() ends leaves of the session state: the script
\* wrote nothing after the data source block.  (The model keeps the entries
\* of widgets such a run does not render.)
halted_session(ss) == ss

HaltView(msg) ==
    [stage |-> "halt", msg |-> msg, submit |-> FALSE, seeded |-> FALSE,
     saved |-> FALSE, warned |-> {}, updated |-> EmptyDict]

\* base_patient (lines 318-326)
base_patient_of(df, sel) ==
    IF sel # NONE_LABEL THEN base_record(df, sel)
    ELSE [c \in FeatureSet |-> PyNone]

\* timeline_record (lines 319-337)
timeline_record_of(df, sel) ==
    IF sel # NONE_LABEL THEN timeline_of(df, RowOf(df, sel)) ELSE EmptyDict

\* Whether this run seeds the widgets (lines 321, 340-341)
seeds(ss, sel) == sel # NONE_LABEL /\ patient_changed(ss, sel)

\* The seed block (lines 339-343)
seed_block(ss, sel, base_patient, levels) ==
    IF seeds(ss, sel)
    THEN seed_widgets_from_patient(DictPut(ss, "_active_patient_id", sel),
                                   base_patient, FEATURE_COLS, NUM_COLS, levels)
    ELSE ss

\* The persist block (lines 347-350)
persist_block(ss, sel, base_patient, timeline_record) ==
    DictPut(DictPut(DictPut(ss,
        "selected_patient_id", IF sel # NONE_LABEL THEN PyStr(sel) ELSE PyNone),
        "patient_record", base_patient),
        "timeline_record", timeline_record)

\* The stores of the submit block (lines 405-415)
save_block(ss, merged) ==
    DictPut(DictPut(ss, "patient_record", merged),
            "display_demographics", demographics_of(ss, merged))

\* The submit block (lines 390-417) after the form, and what the run showed
submit_block(form, base_patient, submit, seeded) ==
    [session |-> IF submit
                 THEN save_block(form.session,
                                 merge_record(base_patient, form.updated))
                 ELSE form.session,
     view |-> [stage |-> "form", msg |-> "none", submit |-> submit,
               seeded |-> seeded, saved |-> submit, warned |-> form.warned,
               updated |-> form.updated]]

\* The script from the seed block on (lines 339-417)
page_body(ss1, sel, submit, levels, base_patient, timeline_record) ==
    submit_block(
        render_form(
            [session |-> persist_block(seed_block(ss1, sel, base_patient, levels),
                                       sel, base_patient, timeline_record),
             updated |-> EmptyDict, warned |-> {}],
            FormCols, levels),
        base_patient, submit, seeds(ss1, sel))

\* The script from the level sets on (lines 298-417), the dataset loaded
Page(ss1, df, sel, submit) ==
    page_body(ss1, sel, submit, levels_of(df), base_patient_of(df, sel),
              timeline_record_of(df, sel))

\* The session state after the upload branch (lines 281-282)
store_upload(ss0, upv) ==
    IF upv # "none" THEN DictPut(ss0, "uploaded_master_bytes", upv) ELSE ss0

\* df_master (lines 279-288)
df_master_of(ss1, upv, defEx) ==
    IF upv # "none" THEN ReadExcel(ss1["uploaded_master_bytes"])
    ELSE IF defEx THEN MasterDf ELSE NoDf

\* The script from the dataset tests on (lines 290-417)
script_on(ss1, df_master, sel, submit) ==
    IF ~df_master.loaded
    THEN [session |-> halted_session(ss1), view |-> HaltView("warning")]
    ELSE IF "patient_id" \notin df_master.cols
    THEN [session |-> halted_session(ss1), view |-> HaltView("error")]
    ELSE Page(ss1, df_master, sel, submit)

\* One run of the script (lines 279-417)
Script(ss0, sel, upv, defEx, submit) ==
    script_on(store_upload(ss0, upv),
              df_master_of(store_upload(ss0, upv), upv, defEx), sel, submit)

(***************************************************************************)
(* The user's interactions.  Every interaction outside the form runs the   *)
(* script; an entry in a form field runs nothing until the form is         *)
(* submitted.  An entry is written to the field's session key at once: the *)
(* script reads it on its next run either way.                             *)
(***************************************************************************)
Uploads == {"none", "master", "nopid"}

\* The characters typed into a numeric field
Alphabet == {"6", "5", ".", "a", " "}

\* Every text of at most MaxLen characters
Texts == UNION {[1..n -> Alphabet] : n \in 0..MaxLen}

\* What the user types into the numeric field in Spec
AgeEntries == {<<"6", "5">>, <<"a">>}

\* What the user types into a free-text field
TextEntries == {<<>>, <<"X">>}

\* The picker's options (line 316) over the loaded dataset
PickerOptions == {NONE_LABEL} \cup PatientIds(MasterDf)

\* The options of a field of the form
Entries(col) ==
    LET levels == MasterLevels
    IN  IF col \in NUM_COLS THEN AgeEntries
        ELSE IF col \in DOMAIN levels /\ Len(levels[col]) > 0
        THEN {LEAVE_BLANK_LABEL} \cup SeqToSet(levels[col])
        ELSE TextEntries

NoSave == [present |-> FALSE, record |-> EmptyDict]

NoResult == [done |-> FALSE, out |-> <<>>]

InitView ==
    [stage |-> "init", msg |-> "none", submit |-> FALSE, seeded |-> FALSE,
     saved |-> FALSE, warned |-> {}, updated |-> EmptyDict]

Init ==
    /\ session = EmptyDict
    /\ picker = NONE_LABEL
    /\ up = "none"
    /\ default_exists \in BOOLEAN
    /\ view = InitView
    /\ edits = 0
    /\ saved = NoSave
    /\ arg = <<>>
    /\ result = NoResult

\* The state after a run that ended as r, the picker at sel
Ran(r, sel) ==
    /\ session' = r.session
    /\ view' = r.view
    /\ edits' = edits
    /\ saved' = IF r.view.saved
                THEN [present |-> TRUE, record |-> r.session["patient_record"]]
                ELSE IF sel # picker THEN NoSave
                ELSE saved

\* One run of the script with the picker at sel and the uploader at upv
RunScript(sel, upv, submit) ==
    Ran(Script(session, sel, upv, default_exists, submit), sel)

\* The page is opened, or rerun from the browser
Rerun ==
    /\ UNCHANGED <<picker, up, default_exists, arg, result>>
    /\ RunScript(picker, up, FALSE)

\* A file is put into the uploader, or taken out of it
Upload(f) ==
    /\ view.stage # "init"
    /\ f # up
    /\ up' = f
    /\ UNCHANGED <<picker, default_exists, arg, result>>
    /\ RunScript(picker, f, FALSE)

\* Another option of the picker is chosen
Select(s) ==
    /\ view.stage = "form"
    /\ s # picker
    /\ picker' = s
    /\ UNCHANGED <<up, default_exists, arg, result>>
    /\ RunScript(s, up, FALSE)

\* "Save inputs for scoring" is pressed
Submit ==
    /\ view.stage = "form"
    /\ UNCHANGED <<picker, up, default_exists, arg, result>>
    /\ RunScript(picker, up, TRUE)

\* A field of the form is edited
Edit(col, val) ==
    /\ view.stage = "form"
    /\ edits < MaxEdits
    /\ edits' = edits + 1
    /\ session' = DictPut(session, wkey(col), val)
    /\ UNCHANGED <<picker, up, default_exists, view, saved, arg, result>>

\* The default dataset file appears or disappears
DefaultFile ==
    /\ default_exists' = ~default_exists
    /\ UNCHANGED <<session, picker, up, view, edits, saved, arg, result>>

Next ==
    \/ Rerun
    \/ \E f \in Uploads : Upload(f)
    \/ \E s \in PickerOptions : Select(s)
    \/ Submit
    \/ \E col \in SeqToSet(FormCols) : \E val \in Entries(col) : Edit(col, val)
    \/ DefaultFile

Spec == Init /\ [][Next]_vars

(***************************************************************************)
(* The numeric field on its own: the page is open on the master dataset,   *)
(* a picker option is chosen, and a text of at most MaxLen characters has  *)
(* been typed into the age field; the script is then run, with or without  *)
(* the submit button.                                                      *)
(***************************************************************************)
\* The first run of a session that has the default dataset, then the run
\* after the picker is moved to p
FirstRun == Script(EmptyDict, NONE_LABEL, "none", TRUE, FALSE)

OpenedAt(p) ==
    IF p = NONE_LABEL THEN FirstRun
    ELSE Script(FirstRun.session, p, "none", TRUE, FALSE)

InitNumeric ==
    \E p \in PickerOptions : \E raw \in Texts :
        /\ session = DictPut(OpenedAt(p).session, wkey("age"), raw)
        /\ view = OpenedAt(p).view
        /\ picker = p
        /\ up = "none"
        /\ default_exists = TRUE
        /\ edits = 1
        /\ saved = NoSave
        /\ arg = <<>>
        /\ result = NoResult

NextNumeric ==
    \/ Rerun
    \/ Submit

SpecNumeric == InitNumeric /\ [][NextNumeric]_vars

(***************************************************************************)
(* The level-set functions on their own: a column of at most MaxLen cells, *)
(* or the column of the documented example, is handed to clean_levels or,  *)
(* as the gender column of a frame, to build_levels_from_df.               *)
(***************************************************************************)
TextA == <<"A">>

TextB == <<"B">>

Cells ==
    {PyStr(TextA), PyStr(TextB), PyStr(<<" ", "A", " ">>), PyStr(<<>>),
     PyStr(MissingNotNoted), PyStr(NotKnownMissing), PyNaN}

ExampleColumn ==
    <<PyStr(TextA), PyStr(MissingNotNoted), PyStr(TextB), PyStr(TextA), PyStr(<<>>)>>

Columns == UNION {[1..n -> Cells] : n \in 0..MaxLen} \cup {ExampleColumn}

InitLevels ==
    /\ session = EmptyDict
    /\ picker = NONE_LABEL
    /\ up = "none"
    /\ default_exists = FALSE
    /\ view = InitView
    /\ edits = 0
    /\ saved = NoSave
    /\ arg \in Columns
    /\ result = NoResult

\* clean_levels(arg)
CallCleanLevels ==
    /\ ~result.done
    /\ result' = [done |-> TRUE, out |-> clean_levels(arg)]
    /\ UNCHANGED <<session, picker, up, default_exists, view, edits, saved, arg>>

\* build_levels_from_df(df, CAT_COLS)["gender"], arg being df's gender column
CallBuildLevels ==
    /\ ~result.done
    /\ LET df == [loaded |-> TRUE, cols |-> {"gender"},
                  rows |-> [i \in 1..Len(arg) |-> [gender |-> arg[i]]]]
       IN  result' = [done |-> TRUE,
                      out |-> build_levels_from_df(df, CAT_COLS)["gender"]]
    /\ UNCHANGED <<session, picker, up, default_exists, view, edits, saved, arg>>

NextLevels ==
    \/ CallCleanLevels
    \/ CallBuildLevels

SpecLevels == InitLevels /\ [][NextLevels]_vars

(***************************************************************************)
(* Properties                                                              *)
(***************************************************************************)
\* A step that is one run of the script
RunStep ==
    \/ Rerun
    \/ \E f \in Uploads : Upload(f)
    \/ \E s \in PickerOptions : Select(s)
    \/ Submit

RealIds == PatientIds(MasterDf)

WidgetKeys == {wkey(c) : c \in FeatureSet \ {"age_group"}}

\* The widget entries as seeded from patient x's record
SeedOf(x) ==
    seed_widgets_from_patient(EmptyDict, base_record(MasterDf, x), FEATURE_COLS,
                              NUM_COLS, MasterLevels)

HasRecord == "patient_record" \in DOMAIN session

\* C1: once patient x is selected and the widget entries are seeded from x's
\* record (x is the active patient), a run of the script in which the picker
\* is still x leaves every widget entry as it was before the run, the user's
\* edits included, submitted or not.
SeedOnce ==
    [][\A x \in RealIds :
          (/\ picker = x /\ picker' = x
           /\ "_active_patient_id" \in DOMAIN session
           /\ session["_active_patient_id"] = x
           /\ RunStep)
          => \A k \in WidgetKeys \cap DOMAIN session :
                k \in DOMAIN session' /\ session'[k] = session[k]]_vars

\* C1 witness: P1 (seeded as Male) is active, the user has set gender to
\* Female, and a later run that did not seed has read Female from the widget.
SeedOnceWitness ==
    /\ picker = P1
    /\ view.stage = "form" /\ ~view.seeded
    /\ "_active_patient_id" \in DOMAIN session
    /\ session["_active_patient_id"] = P1
    /\ session["w__gender"] = FEMALE
    /\ view.updated["gender"] = PyStr(FEMALE)

\* The widgets hold patient x's seeded values, but for gender set to Female
OnlyGenderOverridden(x) ==
    /\ "_active_patient_id" \in DOMAIN session
    /\ session["_active_patient_id"] = x
    /\ \A k \in WidgetKeys \ {"w__gender"} :
          k \in DOMAIN session /\ session[k] = SeedOf(x)[k]
    /\ session["w__gender"] = FEMALE

\* C2: for every patient x, submitting with x selected and only gender
\* changed, to "Female", stores a record equal to x's auto-filled record on
\* every feature but gender, which is "Female", and age_group, which is the
\* one derived from age.
AutoFillOverride ==
    [][\A x \in RealIds :
          (picker = x /\ OnlyGenderOverridden(x) /\ Submit /\ view'.stage = "form")
          => LET rec == session'["patient_record"]
                 auto == base_record(MasterDf, x)
             IN  /\ \A c \in FeatureSet \ {"gender", "age_group"} : rec[c] = auto[c]
                 /\ rec["gender"] = PyStr(FEMALE)
                 /\ rec["age_group"] = derive_age_group(rec["age"])]_vars

\* C3: whenever patient_record is in the session state, its keys are exactly
\* the declared features.
SchemaComplete ==
    HasRecord => DOMAIN session["patient_record"] = FeatureSet

\* C3 witness: the record of a submission with a patient selected
SchemaCompleteWitness ==
    /\ HasRecord
    /\ view.stage = "form" /\ view.submit
    /\ picker = P2
    /\ session["patient_record"]["gender"] = PyStr(FEMALE)

\* C4: no value of patient_record is the empty string, a placeholder label or
\* NaN.
NoPlaceholderInRecord ==
    HasRecord =>
        \A c \in DOMAIN session["patient_record"] :
            LET v == session["patient_record"][c]
            IN  /\ v.t # "nan"
                /\ v.t = "str" => (v.s # <<>> /\ v.s \notin MISSING_LABELS)

\* C5: a run in which the picker has just been moved to a patient x leaves
\* the widget entries as seeded from x's record.
ReseedOnChange ==
    [][\A x \in RealIds :
          (Select(x) /\ view'.stage = "form")
          => \A k \in WidgetKeys :
                k \in DOMAIN session' /\ session'[k] = SeedOf(x)[k]]_vars

\* The rule of C6 for an age: absent for an absent age or one that is no
\* number, "<= 65 years" up to 65, "> 65 years" above
AgeGroupRule(age) ==
    LET num == FloatOf(age)
    IN  IF age = PyNone \/ ~num.ok THEN PyNone
        ELSE IF num.v.n <= AgeCut * Pow10(num.v.d) THEN PyStr(LE65)
        ELSE PyStr(GT65)

\* C6: whenever patient_record is in the session state, its age_group is the
\* rule applied to its age (65 gives "<= 65 years"), whatever the dataset's
\* age_group column holds.
AgeGroupDerived ==
    (HasRecord /\ "age_group" \in FeatureSet) =>
        session["patient_record"]["age_group"]
            = AgeGroupRule(session["patient_record"]["age"])

\* C6 witness: P2 (age 65.1, "> 65 years") selected, 65 typed and submitted:
\* the record holds 65 and "<= 65 years".
AgeGroupDerivedWitness ==
    /\ HasRecord
    /\ picker = P2 /\ view.submit
    /\ session["patient_record"]["age"] = PyInt(65)
    /\ session["patient_record"]["age_group"] = PyStr(LE65)

\* The session entries C9 names
KeptKeys ==
    {"selected_patient_id", "patient_record", "timeline_record",
     "display_demographics"} \cup WidgetKeys

\* C9: a run with no upload and no default dataset shows a warning, a run on a
\* dataset without a patient_id column shows an error; either run stops
\* before the picker and the form and leaves the entries of KeptKeys, present
\* or not, as they were.
HaltKeepsSession ==
    [][(((up' = "none" /\ ~default_exists') \/ up' = "nopid") /\ RunStep)
        => /\ view'.stage = "halt"
           /\ view'.msg = (IF up' = "nopid" THEN "error" ELSE "warning")
           /\ view'.updated = EmptyDict
           /\ \A k \in KeptKeys :
                /\ (k \in DOMAIN session') = (k \in DOMAIN session)
                /\ k \in DOMAIN session => session'[k] = session[k]]_vars

\* C9 witness: a run halted on the missing patient_id column, with P1's
\* record and an edited widget in the session
HaltKeepsSessionWitness ==
    /\ view.stage = "halt" /\ view.msg = "error"
    /\ HasRecord
    /\ session["selected_patient_id"] = PyStr(P1)
    /\ session["w__gender"] = FEMALE

\* C10: while the selection is kept after a submission, patient_record is the
\* merged record that submission stored.
SavedSurvives ==
    saved.present => session["patient_record"] = saved.record

\* The fields of display_demographics that are read from patient_record
DemographicFields ==
    {"age", "gender", "ethnicity", "education_level", "employment_status"}

\* C11: whenever display_demographics is in the session state, its patient_id
\* is selected_patient_id, its age, gender, ethnicity, education_level and
\* employment_status are those of patient_record (absent where the record has
\* none), and its age_group is the age-group rule applied to its age.
DemographicsAgree ==
    "display_demographics" \in DOMAIN session =>
        LET dd == session["display_demographics"]
            rec == session["patient_record"]
        IN  /\ dd["patient_id"] = session["selected_patient_id"]
            /\ \A k \in DemographicFields : dd[k] = DictGet(rec, k, PyNone)
            /\ dd["age_group"] = AgeGroupRule(dd["age"])

\* The trimmed text of a cell, and whether the cell counts as a value
Trimmed(v) == Strip(StrOf(v))

Kept(v) ==
    /\ v \notin {PyNone, PyNaN}
    /\ Trimmed(v) # <<>>
    /\ Trimmed(v) # NotKnownMissing
    /\ Trimmed(v) # MissingNotNoted

\* Where text s is first seen in column col
FirstSeen(col, s) ==
    CHOOSE k \in 1..Len(col) :
        /\ Kept(col[k]) /\ Trimmed(col[k]) = s
        /\ \A j \in 1..(k - 1) : ~(Kept(col[j]) /\ Trimmed(col[j]) = s)

\* C7: the level set of a column holds exactly the trimmed texts of its cells
\* that are not missing, empty or a placeholder label, each once, in the
\* order they are first seen; the documented example gives ["A", "B"].
LevelSet ==
    result.done =>
        LET out == result.out
        IN  /\ {out[i] : i \in 1..Len(out)}
                = {Trimmed(arg[k]) : k \in {j \in 1..Len(arg) : Kept(arg[j])}}
            /\ \A i, j \in 1..Len(out) : i # j => out[i] # out[j]
            /\ \A i, j \in 1..Len(out) :
                    i < j => FirstSeen(arg, out[i]) < FirstSeen(arg, out[j])
            /\ arg = ExampleColumn => out = <<TextA, TextB>>

\* C7 witness: the documented example, answered with ["A", "B"]
LevelSetWitness ==
    /\ result.done
    /\ arg = ExampleColumn
    /\ result.out = <<TextA, TextB>>

DigitChars == {"0", "1", "2", "3", "4", "5", "6", "7", "8", "9"}

\* Text that reads as an integer, as a decimal with a point
IsIntegerText(b) == Len(b) > 0 /\ \A i \in 1..Len(b) : b[i] \in DigitChars

IsDecimalText(b) ==
    /\ Cardinality({i \in 1..Len(b) : b[i] = "."}) = 1
    /\ \A i \in 1..Len(b) : b[i] \in DigitChars \cup {"."}
    /\ \E i \in 1..Len(b) : b[i] \in DigitChars

\* Value v is the number text b reads as: an int for integer text, a float for
\* decimal text
ReadsAs(v, b) ==
    LET digits == SelectSeq(b, LAMBDA c : c # ".")
        point == CHOOSE i \in 1..Len(b) : b[i] = "."
    IN  IF IsIntegerText(b)
        THEN v.t = "int" /\ v.n = DigitsVal(b)
        ELSE /\ v.t = "float"
             /\ v.n * Pow10(Len(b) - point) = DigitsVal(digits) * Pow10(v.d)

\* What a run made of the age field, raw being the field's text and blank
\* whether raw counts as empty
NumericFieldRead(raw, blank) ==
    LET b == Strip(raw)
        v == view'.updated["age"]
        warned == "age" \in view'.warned
    IN  IF blank THEN v = PyNone /\ ~warned
        ELSE IF IsIntegerText(b) \/ IsDecimalText(b)
        THEN ReadsAs(v, b) /\ ~warned
        ELSE /\ v = PyNone /\ warned
             /\ Submit => /\ view'.saved
                          /\ "patient_record" \in DOMAIN session'
                          /\ session'["patient_record"]["age"] = PyNone

\* C8 as claimed: the empty text gives absent and no warning; any other text
\* gives an int without a decimal point and a float with one, and where it
\* does not parse gives absent with a warning on the field, a submission
\* still saving, with the field absent.
NumericEntryAsClaimed ==
    [][(Rerun \/ Submit)
        => NumericFieldRead(session'["w__age"], session'["w__age"] = <<>>)]_vars

\* C8 amended: as claimed, with the text trimmed first: text that is empty or
\* all whitespace gives absent and no warning.
NumericEntry ==
    [][(Rerun \/ Submit)
        => NumericFieldRead(session'["w__age"],
                            Strip(session'["w__age"]) = <<>>)]_vars

\* C8 witness: "a" was typed and the form submitted: the field is warned
\* about, the record is saved and its age is absent.
NumericEntryWitness ==
    /\ session["w__age"] = <<"a">>
    /\ view.submit /\ view.saved
    /\ "age" \in view.warned
    /\ view.updated["age"] = PyNone
    /\ session["patient_record"]["age"] = PyNone

====
